---- MODULE Spec2Model ----
(***************************************************************************)
(* Subscription billing of Evochat: the entitlement engine                 *)
(* (BillingService.isAllowed / chooseTier over the plan catalog and the   *)
(* usage counters) and the webhook reconciler (PaddleService).            *)
(*                                                                         *)
(* Money is counted in euro cents, times are small integers.  A store     *)
(* call (MongoDB, Redis) may throw; whether it does is an input of the     *)
(* step that makes the call.  The usage ledger (UsageService) runs on the  *)
(* wall clock, in seconds since 1970.                                      *)
(***************************************************************************)
EXTENDS Integers, Sequences, FiniteSets, TLC

VARIABLES
  subs,          \* the subscriptions collection: user -> document, or NoSub
  events,        \* the webhook_events collection: eventId -> row, or NoRow
  wk,            \* reconciler: worker -> its place in applySubscriptionState
  sub0,          \* the Subscription document the user had at the start
  rolling,       \* billing: tier -> what getRollingWindowUsage returns
  weekly,        \* billing: tier -> what getWeeklyUsage returns
  monthly,       \* billing: tier -> what getMonthlySoftCap returns
  cogsCents,     \* billing: what getMonthlyCogs returns, in cents
  now,           \* billing: Date.now(), one tick per isAllowed call
  ia,            \* billing: the direct isAllowed call and its result
  ct,            \* billing: the chooseTier call, its loop position and result
  pw,            \* reconciler: how the persistWebhookEvent call that just returned ended
  zset,          \* usage: the rolling sorted set of the user's economy markers
  cg,            \* usage: the last checkCostGuard call and its result
  ctr,           \* ledger: the Redis string keys of the counters, key -> value
  expires,       \* ledger: every Redis key that exists -> its expiry, or NoExpiry
  msec,          \* ledger: the milliseconds of the clock, next to the seconds in now
  uc             \* ledger: caller -> the UsageService call it makes and its result

lvars == <<ctr, expires, msec, uc>>

uvars == <<zset, cg, lvars>>

bvars == <<rolling, weekly, monthly, cogsCents, now, ia, ct, uvars>>

rvars == <<events, wk, sub0, pw>>

vars ==
  <<subs, events, wk, sub0, rolling, weekly, monthly, cogsCents, now, ia, ct, pw, zset, cg,
    ctr, expires, msec, uc>>

----------------------------------------------------------------------------
(* The plan catalog *)

Tiers ==
  {"economy", "standard", "premium", "flagship",
   "economy_mini", "standard_mini", "premium_mini"}

PlanIds == {"free", "basic", "pro", "pro_plus"}

FIVE_HOURS == 18000

THREE_HOURS == 10800

PLANS ==
  [free |->
     [windowLimits |-> << [tier |-> "economy", limit |-> 10, windowSeconds |-> FIVE_HOURS] >>,
      weeklyLimits |-> << >>,
      monthlySoftCaps |-> << [tier |-> "economy", cap |-> 300] >>,
      fallbackChain |-> << "economy_mini" >>,
      monthlyCogsBudgetCents |-> 0],
   basic |->
     [windowLimits |-> << [tier |-> "premium", limit |-> 15, windowSeconds |-> THREE_HOURS],
                          [tier |-> "standard", limit |-> 60, windowSeconds |-> THREE_HOURS] >>,
      weeklyLimits |-> << [tier |-> "premium", limit |-> 300] >>,
      monthlySoftCaps |-> << [tier |-> "economy", cap |-> 2000] >>,
      fallbackChain |-> << "standard", "standard_mini" >>,
      monthlyCogsBudgetCents |-> 720],
   pro |->
     [windowLimits |-> << [tier |-> "premium", limit |-> 160, windowSeconds |-> THREE_HOURS],
                          [tier |-> "standard", limit |-> 120, windowSeconds |-> THREE_HOURS] >>,
      weeklyLimits |-> << [tier |-> "premium", limit |-> 1000] >>,
      monthlySoftCaps |-> << [tier |-> "economy", cap |-> 2000] >>,
      fallbackChain |-> << "standard", "standard_mini" >>,
      monthlyCogsBudgetCents |-> 1320],
   pro_plus |->
     [windowLimits |-> << [tier |-> "flagship", limit |-> 60, windowSeconds |-> THREE_HOURS],
                          [tier |-> "premium", limit |-> 300, windowSeconds |-> THREE_HOURS],
                          [tier |-> "standard", limit |-> 120, windowSeconds |-> THREE_HOURS] >>,
      weeklyLimits |-> << [tier |-> "flagship", limit |-> 300],
                          [tier |-> "premium", limit |-> 2000] >>,
      monthlySoftCaps |-> << [tier |-> "economy", cap |-> 2000],
                             [tier |-> "flagship", cap |-> 80] >>,
      fallbackChain |-> << "premium", "standard", "standard_mini" >>,
      monthlyCogsBudgetCents |-> 2880]]

getPlanById(id) == PLANS[id]

----------------------------------------------------------------------------
(* The Subscription document as the entitlement engine reads it *)

Users == {"u1"}

\* no document; also the value of every field a document does not carry
NoSub ==
  [paddleSubscriptionId |-> "unset", paddleCustomerId |-> "unset", status |-> "unset",
   lastEventAt |-> 0, gracePeriodUntil |-> 0, currentPeriodStart |-> 0,
   currentPeriodEnd |-> 0, planId |-> "unset", priceId |-> "unset"]

SubscriptionStatus == {"trialing", "active", "paused", "past_due", "canceled"}

\* Subscription.findOne({ userId }) for the user of the request
subscription == subs["u1"]

\* subscription?.planId || 'free'
planIdOf(sub) == IF sub.planId = "unset" THEN "free" ELSE sub.planId

----------------------------------------------------------------------------
(* UsageService.checkCostGuard: the three bands of the monthly budget *)

\* currentCogsEUR / monthlyBudgetEUR * 100 as an exact fraction, 0 without a budget
percentageUsedOf(cogs, budget) ==
  IF budget > 0 THEN [num |-> cogs * 100, den |-> budget] ELSE [num |-> 0, den |-> 1]

\* a warning band that starts above 90 %
warns_Above(pct) == pct.num > 90 * pct.den

\* if (percentageUsed >= 90)
warns(pct) == pct.num >= 90 * pct.den

checkCostGuard(cogs, budget) ==
  LET pct == percentageUsedOf(cogs, budget)
  IN IF pct.num >= 110 * pct.den
     THEN [allowed |-> FALSE, reason |-> "cost_guard_blocked", percentageUsed |-> pct]
     ELSE IF warns(pct)
     THEN [allowed |-> TRUE, reason |-> "cost_guard_warning", percentageUsed |-> pct]
     ELSE [allowed |-> TRUE, reason |-> "ok", percentageUsed |-> pct]

IdleCg ==
  [pc |-> "idle", budget |-> 0,
   res |-> [allowed |-> TRUE, reason |-> "none", percentageUsed |-> [num |-> 0, den |-> 1]]]

\* a caller asks checkCostGuard(userId, monthlyBudgetEUR); getMonthlyCogs
\* returns the accumulator
CheckCostGuardCall(budget) ==
  /\ cg' = [pc |-> "done", budget |-> budget, res |-> checkCostGuard(cogsCents, budget)]
  /\ UNCHANGED <<subs, rvars, zset, lvars, rolling, weekly, monthly, cogsCents, now, ia, ct>>

----------------------------------------------------------------------------
(* UsageService: the rolling sorted set of a (user, tier).  Times are in   *)
(* seconds; a score is the millisecond timestamp as trackUsage stores it.  *)

Two29 == 536870912

addMod(a, b) == (a + b) % Two29

times5(a) == addMod(addMod(addMod(addMod(a, a), a), a), a)

\* (ms | 0) for ms = s * 1000: the low 32 bits of the timestamp, read as a
\* signed integer.  s * 1000 = 8 * (s * 125), so the low 32 bits are
\* 8 * ((s * 125) mod 2^29).
toInt32Ms(s) ==
  LET x == times5(times5(times5(s % Two29)))
  IN IF x < Two29 \div 2 THEN 8 * x ELSE 8 * (x - Two29)

\* the member trackUsage adds: its score, and the time of the call; live
\* turns false when a read removes the member
Marker(t) == [score |-> toInt32Ms(t), at |-> t, live |-> TRUE]

\* 0 <= score <= windowStart for windowStart = (now - windowSeconds) * 1000 ms
inPruneRange(score, t, windowSeconds) ==
  LET windowStart == t - windowSeconds
  IN /\ score >= 0
     /\ \/ score \div 1000 < windowStart
        \/ score \div 1000 = windowStart /\ score % 1000 = 0

\* redis.zremrangebyscore(key, 0, windowStart)
zremrangebyscore(z, t, windowSeconds) ==
  [k \in 1..Len(z) |->
     IF z[k].live /\ inPruneRange(z[k].score, t, windowSeconds)
     THEN [z[k] EXCEPT !.live = FALSE] ELSE z[k]]

\* redis.zcard(key)
zcard(z) == Cardinality({k \in 1..Len(z) : z[k].live})

MaxMarkers == 11

MaxTicks == 2

\* the clock moves by a little more than half of the free plan's window
Step == 9001

\* the instants a run starts at: two dates of the wall clock
\* (2026-11-03 and 2026-12-01, 00:00 UTC) and a small injected clock
Epochs == {1793664000, 1796083200, 100000}

\* no call of the entitlement engine is under way
NoCall == ia.pc = "idle" /\ ct.pc = "idle"

Tick ==
  /\ NoCall
  /\ \E b \in Epochs : now >= b /\ now + Step <= b + MaxTicks * Step
  /\ now' = now + Step
  /\ UNCHANGED <<subs, rvars, uvars, rolling, weekly, monthly, cogsCents, ia, ct>>

\* a Redis key: the kind of its suffix, the user, the tier and the label of
\* the period, as the digits the key is written with
Key(kind, userId, tier, label) ==
  [kind |-> kind, user |-> userId, tier |-> tier, label |-> label]

\* `${ns}:${userId}:${tier}:z`
kRolling(userId, tier) == Key("z", userId, tier, << >>)

\* what redis.ttl answers for a key without an expiry
NoExpiry == -1

\* a write to a key creates it, without an expiry, when it does not exist
touched(exp, key) == IF key \in DOMAIN exp THEN exp ELSE exp @@ (key :> NoExpiry)

\* the keys of a store without the given ones
without(f, gone) == [k \in DOMAIN f \ gone |-> f[k]]

\* trackUsage(userId, 'economy') at the current time
trackUsage ==
  /\ NoCall
  /\ Len(zset) < MaxMarkers
  /\ zset' = Append(zset, Marker(now))
  /\ expires' = touched(expires, kRolling("u1", "economy"))
  /\ UNCHANGED <<subs, rvars, cg, ctr, msec, uc, rolling, weekly, monthly, cogsCents, now, ia, ct>>

\* getRollingWindowUsage(userId, 'economy', windowSeconds) at the current
\* time; Redis drops a sorted set that lost its last member
getRollingWindowUsage(windowSeconds) ==
  /\ ia.pc = "idle" /\ ct.pc \in {"idle", "loop"}
  /\ zset' = zremrangebyscore(zset, now, windowSeconds)
  /\ expires' = IF zcard(zset') = 0
                THEN without(expires, {kRolling("u1", "economy")}) ELSE expires
  /\ rolling' = [rolling EXCEPT !["economy"] = zcard(zset')]
  /\ UNCHANGED <<subs, rvars, cg, ctr, msec, uc, weekly, monthly, cogsCents, now, ia, ct>>

\* the counter isAllowed holds is the one the store returns at this instant
Fresh(windowSeconds) ==
  /\ zremrangebyscore(zset, now, windowSeconds) = zset
  /\ rolling["economy"] = zcard(zset)

----------------------------------------------------------------------------
(* UsageService: the calendar of the weekly and monthly keys.  A date is   *)
(* the number of its UTC day since 1970-01-01, an instant is the seconds   *)
(* since then and the milliseconds of the second.                           *)

DaySeconds == 86400

\* the UTC day an instant lies in: what the getUTC... accessors of
\* new Date(nowMs) depend on
dayOf(s) == s \div DaySeconds

\* the day number of the civil date y-m-d (m = 1..12) of the Gregorian calendar
daysFromCivil(y, m, d) ==
  LET yy == IF m <= 2 THEN y - 1 ELSE y
      era == yy \div 400
      yoe == yy - era * 400
      mp == IF m > 2 THEN m - 3 ELSE m + 9
      doy == (153 * mp + 2) \div 5 + d - 1
      doe == yoe * 365 + yoe \div 4 - yoe \div 100 + doy
  IN era * 146097 + doe - 719468

\* getUTCFullYear, getUTCMonth (0..11) and getUTCDate of a day number
civilFromDays(z) ==
  LET zz == z + 719468
      era == zz \div 146097
      doe == zz - era * 146097
      yoe == (doe - doe \div 1460 + doe \div 36524 - doe \div 146096) \div 365
      doy == doe - (365 * yoe + yoe \div 4 - yoe \div 100)
      mp == (5 * doy + 2) \div 153
      m == IF mp < 10 THEN mp + 3 ELSE mp - 9
  IN [year |-> yoe + era * 400 + (IF m <= 2 THEN 1 ELSE 0),
      month |-> m - 1,
      date |-> doy - (153 * mp + 2) \div 5 + 1]

\* Date.UTC(y, monthIndex, date): a month index of 12 and a date outside the
\* month carry over
DateUTC(y, monthIndex, date) ==
  daysFromCivil(y + monthIndex \div 12, (monthIndex % 12) + 1, 1) + (date - 1)

\* getUTCDay: 0 is Sunday; 1970-01-01 was a Thursday
getUTCDay(day) == (day + 4) % 7

\* pad2(n) as the two digits it prints for n < 100
pad2(n) == IF n < 10 THEN << 0, n >> ELSE << n \div 10, n % 10 >>

\* endOfMonthUtc(d): the second and millisecond one millisecond before the
\* first day of the next month
endOfMonthUtc(day) ==
  LET c == civilFromDays(day)
      next == DateUTC(c.year, c.month + 1, 1)
  IN [sec |-> next * DaySeconds - 1, ms |-> 999]

\* isoWeekInfo(d)
isoWeekInfo(day) ==
  LET base == day
      dow == IF getUTCDay(base) = 0 THEN 7 ELSE getUTCDay(base)
      thurs == base + (4 - dow)
      isoYear == civilFromDays(thurs).year
      jan1 == DateUTC(isoYear, 0, 1)
      jan1Dow == IF getUTCDay(jan1) = 0 THEN 7 ELSE getUTCDay(jan1)
      week1Mon == jan1 + (1 - jan1Dow)
      isoWeek == (base - week1Mon) \div 7 + 1
      weekEndMonAfter == week1Mon + isoWeek * 7
  IN [isoYear |-> isoYear, isoWeek |-> isoWeek,
      weekEndTs |-> [sec |-> weekEndMonAfter * DaySeconds - 1, ms |-> 999]]

\* weekKey(nowMs, userId, tier): the key and Math.floor(weekEndTs / 1000)
weekKey(s, userId, tier) ==
  LET w == isoWeekInfo(dayOf(s))
  IN [key |-> Key("week", userId, tier, << w.isoYear >> \o pad2(w.isoWeek)),
      expireAtSec |-> w.weekEndTs.sec]

\* a soft-cap counter keyed on periods of thirty days
monthKey_ThirtyDays(s, userId, tier) ==
  [key |-> Key("month", userId, tier, << 1970 >> \o pad2((dayOf(s) \div 30) % 100)),
   expireAtSec |-> ((dayOf(s) \div 30) + 1) * 30 * DaySeconds - 1]

\* monthKey(nowMs, userId, tier)
monthKey(s, userId, tier) ==
  LET c == civilFromDays(dayOf(s))
  IN [key |-> Key("month", userId, tier, << c.year >> \o pad2(c.month + 1)),
      expireAtSec |-> endOfMonthUtc(dayOf(s)).sec]

\* cogsKey(nowMs, userId): the key of the float accumulator
cogsKey(s, userId) ==
  LET c == civilFromDays(dayOf(s))
  IN [key |-> Key("cogs", userId, "none", << c.year >> \o pad2(c.month + 1)),
      expireAtSec |-> endOfMonthUtc(dayOf(s)).sec]

----------------------------------------------------------------------------
(* UsageService: the weekly counter, the monthly soft-cap counter and the  *)
(* monthly cost accumulator in Redis.  Every Redis command is one step, and *)
(* time may pass between the commands of a call.  Money is in euro cents,   *)
(* a token count is in millions of tokens.                                  *)

\* the callers of the UsageService
Callers == {"c1"}

NoKey == Key("none", "none", "none", << >>)

NoKeys == [k \in {} |-> 0]

IdleUc ==
  [pc |-> "idle", op |-> "none", key |-> NoKey, expireAtSec |-> 0,
   ret |-> 0, added |-> 0, at |-> 0]

\* the ledger at rest: no key, no call
NoLedger ==
  /\ ctr = NoKeys
  /\ expires = NoKeys
  /\ msec = 0
  /\ uc = [c \in Callers |-> IdleUc]

\* the tiers the ledger is exercised with
LedgerTiers == {"economy"}

\* the largest value a counter is driven to
MaxCount == 2

\* the largest accumulated cost, in cents
MaxCogsCents == 6000

\* an instant of the clock
At(y, m, d, secondOfDay, ms) ==
  [sec |-> daysFromCivil(y, m, d) * DaySeconds + secondOfDay, ms |-> ms]

\* the instants the clock passes through: the ends and starts of a week, of
\* a month and of a year, from Sunday 2026-11-29 to Monday 2027-01-04
Instants ==
  << At(2026, 11, 29, 86399, 0),   At(2026, 11, 30, 1, 0),
     At(2026, 11, 30, 86399, 999), At(2026, 12, 1, 0, 0),
     At(2026, 12, 31, 86399, 999), At(2027, 1, 1, 0, 0),
     At(2027, 1, 3, 86399, 0),     At(2027, 1, 4, 1, 0) >>

\* redis.get(key) read as a number: v ? parseInt(v, 10) || 0 : 0
get(key) == IF key \in DOMAIN ctr THEN ctr[key] ELSE 0

\* redis.incrby(key, by) and redis.incrbyfloat(key, by): the values after it
incrby(key, by) ==
  IF key \in DOMAIN ctr THEN [ctr EXCEPT ![key] = @ + by] ELSE ctr @@ (key :> by)

\* redis.ttl(key): -2 without the key, -1 without an expiry
ttl(key) ==
  IF key \notin DOMAIN expires THEN -2
  ELSE IF expires[key] = NoExpiry THEN -1 ELSE expires[key] - now

\* the keys Redis has dropped at second t
expired(t) == {k \in DOMAIN expires : expires[k] # NoExpiry /\ expires[k] <= t}

\* time passes to the next instant: keys whose expiry has come are gone, and
\* what a call returned has been consumed
Advance ==
  /\ \E i \in 1..(Len(Instants) - 1) :
       /\ Instants[i] = [sec |-> now, ms |-> msec]
       /\ now' = Instants[i + 1].sec
       /\ msec' = Instants[i + 1].ms
  /\ expires' = without(expires, expired(now'))
  /\ ctr' = without(ctr, expired(now'))
  /\ uc' = [c \in Callers |-> IF uc[c].pc = "done" THEN IdleUc ELSE uc[c]]
  /\ UNCHANGED <<subs, rvars, zset, cg, rolling, weekly, monthly, cogsCents, ia, ct>>

\* a caller may start a call when its last one has returned
Returned(c) == uc[c].pc \in {"idle", "done"}

\* the first command of an increment: redis.incrby on the key of the period
\* of the current instant; the call goes on to ensureExpireAt
increment(c, op, k, by, added) ==
  /\ Returned(c)
  /\ ctr' = incrby(k.key, by)
  /\ expires' = touched(expires, k.key)
  /\ uc' = [uc EXCEPT ![c] =
              [pc |-> "ttl", op |-> op, key |-> k.key, expireAtSec |-> k.expireAtSec,
               ret |-> ctr'[k.key], added |-> added, at |-> now]]
  /\ UNCHANGED <<subs, rvars, zset, cg, msec, rolling, weekly, monthly, cogsCents, now, ia, ct>>

\* a read: redis.get on the key of the period of the current instant
read(c, op, k) ==
  /\ Returned(c)
  /\ uc' = [uc EXCEPT ![c] =
              [pc |-> "done", op |-> op, key |-> k.key, expireAtSec |-> k.expireAtSec,
               ret |-> get(k.key), added |-> 0, at |-> now]]
  /\ UNCHANGED <<subs, rvars, zset, cg, ctr, expires, msec, rolling, weekly, monthly,
                 cogsCents, now, ia, ct>>

incrementWeeklyUsage(c, tier) ==
  /\ get(weekKey(now, "u1", tier).key) < MaxCount
  /\ increment(c, "incrementWeeklyUsage", weekKey(now, "u1", tier), 1, 1)

getWeeklyUsage(c, tier) == read(c, "getWeeklyUsage", weekKey(now, "u1", tier))

incrementMonthlySoftCap(c, tier) ==
  /\ get(monthKey(now, "u1", tier).key) < MaxCount
  /\ increment(c, "incrementMonthlySoftCap", monthKey(now, "u1", tier), 1, 1)

getMonthlySoftCap(c, tier) == read(c, "getMonthlySoftCap", monthKey(now, "u1", tier))

\* incrementMonthlyCogs(userId, cost): the client of the program has
\* incrbyfloat, so the float key is the one that is written
incrementMonthlyCogs(c, op, cost) ==
  /\ get(cogsKey(now, "u1").key) + cost <= MaxCogsCents
  /\ increment(c, op, cogsKey(now, "u1"), cost, cost)

getMonthlyCogs(c) == read(c, "getMonthlyCogs", cogsKey(now, "u1"))

\* the price of a million tokens in USD
getMultiplier(model, tokenType) == IF tokenType = "prompt" THEN 30 ELSE 60

calculateTokenCostUSD(model, tokenType, tokenCount) ==
  IF tokenCount <= 0 THEN 0 ELSE tokenCount * getMultiplier(model, tokenType)

\* the exchange rates getUSDToEURRate may answer, in cents per USD
RatesPct == {92, 100}

\* the token counts of a call, in millions
TokenCounts == {0, 1}

\* trackTokenCost(userId, model, promptTokens, completionTokens) up to the
\* incrbyfloat of incrementMonthlyCogs; exchangeRate is what
\* getUSDToEURRate returned
trackTokenCost(c, promptTokens, completionTokens, exchangeRate) ==
  LET promptCostUSD == calculateTokenCostUSD("gpt-4", "prompt", promptTokens)
      completionCostUSD == calculateTokenCostUSD("gpt-4", "completion", completionTokens)
      totalCostUSD == promptCostUSD + completionCostUSD
      totalCostEUR == totalCostUSD * exchangeRate
  IN incrementMonthlyCogs(c, "trackTokenCost", totalCostEUR)

\* ensureExpireAt, first command: redis.ttl(key)
ensureExpireAtTtl(c) ==
  /\ uc[c].pc = "ttl"
  /\ uc' = [uc EXCEPT ![c].pc = IF ttl(uc[c].key) = -1 THEN "expireat" ELSE "done"]
  /\ UNCHANGED <<subs, rvars, zset, cg, ctr, expires, msec, rolling, weekly, monthly,
                 cogsCents, now, ia, ct>>

\* redis.expireat(key, when): a time that has come deletes the key
expireat(key, when) ==
  IF key \notin DOMAIN expires THEN expires
  ELSE IF when <= now THEN without(expires, {key})
  ELSE [expires EXCEPT ![key] = when]

\* ensureExpireAt, second command: redis.expireat(key, expireAtSec)
ensureExpireAtSet(c) ==
  /\ uc[c].pc = "expireat"
  /\ expires' = expireat(uc[c].key, uc[c].expireAtSec)
  /\ ctr' = without(ctr, DOMAIN ctr \ DOMAIN expires')
  /\ uc' = [uc EXCEPT ![c].pc = "done"]
  /\ UNCHANGED <<subs, rvars, zset, cg, msec, rolling, weekly, monthly, cogsCents, now, ia, ct>>

----------------------------------------------------------------------------
(* BillingService.isAllowed *)

Min(S) == CHOOSE x \in S : \A y \in S : x <= y

Rep(x, n) == [i \in 1..n |-> x]

NoEta == [kind |-> "none", at |-> 0, secs |-> 0]

\* new Date(now + windowSeconds * 1000), end of the ISO week, end of the month
WindowEta(t, secs) == [kind |-> "now_plus", at |-> t, secs |-> secs]

WeekEndEta(t) == [kind |-> "week_end", at |-> t, secs |-> 0]

MonthEndEta(t) == [kind |-> "month_end", at |-> t, secs |-> 0]

FailPoints == {"none", "findOne", "window", "weekly", "soft", "cost"}

\* a catch block that fails open
ErrorResult_FailOpen(checks) ==
  [allowed |-> TRUE, reason |-> "ok", resetETA |-> NoEta,
   checks |-> checks, threw |-> TRUE]

\* the catch block of isAllowed
ErrorResult(checks) ==
  [allowed |-> FALSE, reason |-> "error", resetETA |-> NoEta,
   checks |-> checks, threw |-> TRUE]

Denied(reason, eta, checks) ==
  [allowed |-> FALSE, reason |-> reason, resetETA |-> eta,
   checks |-> checks, threw |-> FALSE]

\* the number of entries a loop visits: all matching ones, or those up to the
\* first one that blocks
Visited(match, hits) ==
  IF hits = {} THEN Cardinality(match)
  ELSE Cardinality({k \in match : k <= Min(hits)})

\* isAllowed of a tier the plan has no limit for, held to a cap of 100 events
\* per window
evaluate_DefaultCap(plan, tier, fail, t) ==
  IF fail = "cost" THEN ErrorResult(<< "cost" >>)
  ELSE IF rolling[tier] >= 100 THEN Denied("window_cap", WindowEta(t, THREE_HOURS), << "window" >>)
  ELSE IF ~checkCostGuard(cogsCents, plan.monthlyCogsBudgetCents).allowed
    THEN Denied("cost_guard", MonthEndEta(t), << "cost" >>)
  ELSE [allowed |-> TRUE, reason |-> "ok", resetETA |-> NoEta,
        checks |-> << "cost" >>, threw |-> FALSE]

\* isAllowed with the weekly loop placed before the rolling-window loop
evaluate_WeeklyFirst(plan, tier, fail, t) ==
  LET wl == plan.windowLimits
      kl == plan.weeklyLimits
      sc == plan.monthlySoftCaps
      wM == {k \in 1..Len(wl) : wl[k].tier = tier}
      wH == {k \in wM : rolling[tier] >= wl[k].limit}
      kM == {k \in 1..Len(kl) : kl[k].tier = tier}
      kH == {k \in kM : weekly[tier] >= kl[k].limit}
      sM == {k \in 1..Len(sc) : sc[k].tier = tier}
      sH == {k \in sM : monthly[tier] >= sc[k].cap}
      kLog == Rep("weekly", Visited(kM, kH))
      wLog == kLog \o Rep("window", Visited(wM, wH))
      sLog == wLog \o Rep("soft", Visited(sM, sH))
      cLog == sLog \o << "cost" >>
  IN IF kM # {} /\ fail = "weekly" THEN ErrorResult(<< "weekly" >>)
     ELSE IF kH # {} THEN Denied("weekly_cap", WeekEndEta(t), kLog)
     ELSE IF wM # {} /\ fail = "window" THEN ErrorResult(kLog \o << "window" >>)
     ELSE IF wH # {}
       THEN Denied("window_cap", WindowEta(t, wl[Min(wH)].windowSeconds), wLog)
     ELSE IF sM # {} /\ fail = "soft" THEN ErrorResult(wLog \o << "soft" >>)
     ELSE IF sH # {} THEN Denied("soft_cap", MonthEndEta(t), sLog)
     ELSE IF fail = "cost" THEN ErrorResult(cLog)
     ELSE IF ~checkCostGuard(cogsCents, plan.monthlyCogsBudgetCents).allowed
       THEN Denied("cost_guard", MonthEndEta(t), cLog)
     ELSE [allowed |-> TRUE, reason |-> "ok", resetETA |-> NoEta,
           checks |-> cLog, threw |-> FALSE]

\* The body of isAllowed once the plan is known.  fail names the store call
\* that throws, if the call is reached; t is Date.now().
evaluate(plan, tier, fail, t) ==
  LET wl == plan.windowLimits
      kl == plan.weeklyLimits
      sc == plan.monthlySoftCaps
      wM == {k \in 1..Len(wl) : wl[k].tier = tier}
      wH == {k \in wM : rolling[tier] >= wl[k].limit}
      kM == {k \in 1..Len(kl) : kl[k].tier = tier}
      kH == {k \in kM : weekly[tier] >= kl[k].limit}
      sM == {k \in 1..Len(sc) : sc[k].tier = tier}
      sH == {k \in sM : monthly[tier] >= sc[k].cap}
      wLog == Rep("window", Visited(wM, wH))
      kLog == wLog \o Rep("weekly", Visited(kM, kH))
      sLog == kLog \o Rep("soft", Visited(sM, sH))
      cLog == sLog \o << "cost" >>
  IN IF wM # {} /\ fail = "window" THEN ErrorResult(<< "window" >>)
     ELSE IF wH # {}
       THEN Denied("window_cap", WindowEta(t, wl[Min(wH)].windowSeconds), wLog)
     ELSE IF kM # {} /\ fail = "weekly" THEN ErrorResult(wLog \o << "weekly" >>)
     ELSE IF kH # {} THEN Denied("weekly_cap", WeekEndEta(t), kLog)
     ELSE IF sM # {} /\ fail = "soft" THEN ErrorResult(kLog \o << "soft" >>)
     ELSE IF sH # {} THEN Denied("soft_cap", MonthEndEta(t), sLog)
     ELSE IF fail = "cost" THEN ErrorResult(cLog)
     ELSE IF ~checkCostGuard(cogsCents, plan.monthlyCogsBudgetCents).allowed
       THEN Denied("cost_guard", MonthEndEta(t), cLog)
     ELSE [allowed |-> TRUE, reason |-> "ok", resetETA |-> NoEta,
           checks |-> cLog, threw |-> FALSE]

isAllowed(tier, fail, t) ==
  IF fail = "findOne" THEN ErrorResult(<< >>)
  ELSE evaluate(getPlanById(planIdOf(subscription)), tier, fail, t)

IdleIa == [pc |-> "idle", tier |-> "none", res |-> ErrorResult(<< >>)]

IdleCt ==
  [pc |-> "idle", req |-> "none", tiersToTry |-> << >>, i |-> 0, calls |-> << >>,
   threw |-> FALSE,
   result |-> [effectiveTier |-> "none", reason |-> "none", resetETA |-> NoEta]]

\* a request handler calls isAllowed(userId, tier)
IsAllowedCall(tier, fail) ==
  /\ ia.pc = "idle" /\ ct.pc = "idle"
  /\ ia' = [pc |-> "done", tier |-> tier, res |-> isAllowed(tier, fail, now)]
  /\ UNCHANGED <<subs, rvars, uvars, rolling, weekly, monthly, cogsCents, now, ct>>

----------------------------------------------------------------------------
(* BillingService.chooseTier *)

\* [requestedTier, ...plan.fallbackChain]
candidates(requestedTier, plan) == << requestedTier >> \o plan.fallbackChain

\* the catch block of chooseTier
ChooseTierError ==
  [effectiveTier |-> "economy_mini", reason |-> "error", resetETA |-> NoEta]

\* a loop that does not stop at an allowed candidate
returnsAllowed_Never(allowance) == FALSE

\* if (allowance.allowed)
returnsAllowed(allowance) == allowance.allowed

Selected(tier, allowance) ==
  [effectiveTier |-> tier, reason |-> "ok", resetETA |-> allowance.resetETA]

\* if (tier === tiersToTry[tiersToTry.length - 1]): a comparison of tier names
isFinalFallback(tier, tiersToTry) == tier = tiersToTry[Len(tiersToTry)]

\* a last resort that is always the free plan's mini tier
FinalFallback_Mini(tier, allowance) ==
  [effectiveTier |-> "economy_mini", reason |-> allowance.reason,
   resetETA |-> allowance.resetETA]

\* a last resort that drops the denial of the last check
FinalFallback_Generic(tier, allowance) ==
  [effectiveTier |-> tier, reason |-> "fallback", resetETA |-> NoEta]

FinalFallback(tier, allowance) ==
  [effectiveTier |-> tier, reason |-> allowance.reason, resetETA |-> allowance.resetETA]

\* the plan lookup and the candidate list; the catch block when the lookup throws
ChooseTierStart(requestedTier, ok) ==
  /\ ia.pc = "idle" /\ ct.pc = "idle"
  /\ ct' = IF ok
           THEN [ct EXCEPT !.pc = "loop", !.req = requestedTier, !.i = 1,
                   !.tiersToTry =
                      candidates(requestedTier, getPlanById(planIdOf(subscription)))]
           ELSE [ct EXCEPT !.pc = "done", !.req = requestedTier, !.threw = TRUE,
                   !.result = ChooseTierError]
  /\ UNCHANGED <<subs, rvars, uvars, rolling, weekly, monthly, cogsCents, now, ia>>

\* one iteration of the loop over tiersToTry
ChooseTierIter(fail) ==
  /\ ct.pc = "loop" /\ ct.i <= Len(ct.tiersToTry)
  /\ LET tier == ct.tiersToTry[ct.i]
         allowance == isAllowed(tier, fail, now)
         calls == Append(ct.calls, [tier |-> tier, allowed |-> allowance.allowed,
                                    reason |-> allowance.reason,
                                    resetETA |-> allowance.resetETA])
     IN ct' = IF returnsAllowed(allowance)
              THEN [ct EXCEPT !.pc = "done", !.calls = calls,
                      !.result = Selected(tier, allowance)]
              ELSE IF isFinalFallback(tier, ct.tiersToTry)
              THEN [ct EXCEPT !.pc = "done", !.calls = calls,
                      !.result = FinalFallback(tier, allowance)]
              ELSE [ct EXCEPT !.calls = calls, !.i = ct.i + 1]
  /\ now' = now + 1
  /\ UNCHANGED <<subs, rvars, uvars, rolling, weekly, monthly, cogsCents, ia>>

----------------------------------------------------------------------------
(* The states a user's record and counters are drawn from *)

WindowLimitsOf(p, t) ==
  {PLANS[p].windowLimits[k].limit :
     k \in {j \in 1..Len(PLANS[p].windowLimits) : PLANS[p].windowLimits[j].tier = t}}

WeeklyLimitsOf(p, t) ==
  {PLANS[p].weeklyLimits[k].limit :
     k \in {j \in 1..Len(PLANS[p].weeklyLimits) : PLANS[p].weeklyLimits[j].tier = t}}

SoftCapsOf(p, t) ==
  {PLANS[p].monthlySoftCaps[k].cap :
     k \in {j \in 1..Len(PLANS[p].monthlySoftCaps) : PLANS[p].monthlySoftCaps[j].tier = t}}

\* the plan has no window limit, weekly limit or soft cap for the tier
NoLimits(p, t) ==
  WindowLimitsOf(p, t) = {} /\ WeeklyLimitsOf(p, t) = {} /\ SoftCapsOf(p, t) = {}

\* the events recorded for a tier the plan does not limit, and the cost
\* accumulated by a user without a budget
StrayUsage == 1000

StrayCogsCents == 5000

\* a counter is at 0 or exactly at a limit of the record's plan or of the free
\* plan; the rolling count of a tier the plan does not limit is 0 or large
RollingValues(sub, t) ==
  {0} \cup WindowLimitsOf(planIdOf(sub), t) \cup WindowLimitsOf("free", t)
    \cup (IF NoLimits(planIdOf(sub), t) THEN {StrayUsage} ELSE {})

WeeklyValues(sub, t) == {0} \cup WeeklyLimitsOf(planIdOf(sub), t) \cup WeeklyLimitsOf("free", t)

MonthlyValues(sub, t) == {0} \cup SoftCapsOf(planIdOf(sub), t) \cup SoftCapsOf("free", t)

\* nothing spent, 90 % and 110 % of the plan's budget
CogsValues(sub) ==
  LET b == PLANS[planIdOf(sub)].monthlyCogsBudgetCents
  IN {0, (90 * b) \div 100, (110 * b) \div 100}
       \cup (IF b = 0 THEN {StrayCogsCents} ELSE {})

Counters(sub, Values(_, _)) ==
  {[t \in Tiers |-> CASE t = "economy" -> e [] t = "standard" -> s
                      [] t = "premium" -> p [] t = "flagship" -> f [] OTHER -> 0] :
     e \in Values(sub, "economy"), s \in Values(sub, "standard"),
     p \in Values(sub, "premium"), f \in Values(sub, "flagship")}

SubStatuses == {"active", "canceled"}

\* a document as the reconciler leaves it after a subscription event
PaidSub(planId, status) ==
  [paddleSubscriptionId |-> "sub_1", paddleCustomerId |-> "ctm_1", status |-> status,
   lastEventAt |-> 1, gracePeriodUntil |-> 0, currentPeriodStart |-> 10,
   currentPeriodEnd |-> 15, planId |-> planId, priceId |-> "pri_existing"]

\* no persistWebhookEvent call has just returned
NoPersist == "none"

InitBilling ==
  /\ NoLedger
  /\ subs \in [Users -> {NoSub} \cup {PaidSub(p, st) : p \in PlanIds, st \in SubStatuses}]
  /\ events = << >>
  /\ wk = << >>
  /\ pw = NoPersist
  /\ zset = << >>
  /\ cg = IdleCg
  /\ sub0 = subs["u1"]
  /\ rolling \in Counters(subscription, RollingValues)
  /\ weekly \in Counters(subscription, WeeklyValues)
  /\ monthly \in Counters(subscription, MonthlyValues)
  /\ cogsCents \in CogsValues(subscription)
  /\ now = 0
  /\ ia = IdleIa
  /\ ct = IdleCt

NextBilling ==
  \/ \E tier \in Tiers, fail \in FailPoints : IsAllowedCall(tier, fail)
  \/ \E tier \in Tiers, ok \in BOOLEAN : ChooseTierStart(tier, ok)
  \/ \E fail \in FailPoints : ChooseTierIter(fail)

SpecBilling == InitBilling /\ [][NextBilling]_vars

----------------------------------------------------------------------------
(* The webhook reconciler: PaddleService *)

MaxEvents == 2

MaxTime == 3

EventIds == 1..MaxEvents

Workers == {"w1", "w2"}

\* PRICE_TO_PLAN: the price ids of the catalog's plans
PRICE_TO_PLAN(pid) ==
  CASE pid = "pri_free" -> "free" [] pid = "pri_basic" -> "basic"
    [] pid = "pri_pro" -> "pro" [] pid = "pri_pro_plus" -> "pro_plus"
    [] OTHER -> "none"

\* the customer_links collection: paddleCustomerId -> userId
CustomerLink(customerId) == IF customerId = "ctm_1" THEN "u1" ELSE "none"

\* data.grace_period.effective_at of a payload that carries one
GraceAt == 50

\* the payloads of subscription events that occurred at time t: the fields
\* processOne reads ("none", 0 and << >> stand for an absent field)
SubscriptionPayloads(t) ==
  [userId : {"u1"}, customerId : {"ctm_1"}, subId : {"sub_1"},
   status : {"active", "past_due"},
   items : {<< >>, << "pri_pro" >>},
   periodStart : {0, 10 * t}, graceAt : {0, GraceAt}, cancelAt : {0}]

\* an event of a customer nobody is linked to, and one without data.id
StrayPayloads ==
  {[userId |-> "none", customerId |-> "ctm_x", subId |-> "sub_1", status |-> "active",
    items |-> << "pri_basic" >>, periodStart |-> 0, graceAt |-> 0, cancelAt |-> 0],
   [userId |-> "u1", customerId |-> "ctm_1", subId |-> "none", status |-> "active",
    items |-> << "pri_basic" >>, periodStart |-> 0, graceAt |-> 0, cancelAt |-> 0]}

\* a grace time comes with payloads that carry no item and no period
Payloads(t) ==
  {p \in SubscriptionPayloads(t) :
     p.graceAt = 0 \/ (p.items = << >> /\ p.periodStart = 0)}
    \cup StrayPayloads

\* the payload of a transaction.completed event: data.id is the id of the
\* transaction, data.status is "completed"
TransactionPayloads ==
  {[userId |-> "u1", customerId |-> "ctm_1", subId |-> "txn_1", status |-> "completed",
    items |-> << "pri_pro" >>, periodStart |-> 0, graceAt |-> 0, cancelAt |-> 0]}

\* the events Paddle sends at time t: their event_type and payload
Notifications(t) ==
  {[type |-> "subscription.updated", payload |-> p] : p \in Payloads(t)}
    \cup {[type |-> "transaction.completed", payload |-> p] : p \in TransactionPayloads}

periodEndOf(payload) == IF payload.periodStart = 0 THEN 0 ELSE payload.periodStart + 5

NoPayload ==
  [userId |-> "none", customerId |-> "none", subId |-> "none", status |-> "none",
   items |-> << >>, periodStart |-> 0, graceAt |-> 0, cancelAt |-> 0]

NoRow ==
  [type |-> "none", occurredAt |-> 0, payload |-> NoPayload, status |-> "absent",
   failReason |-> "none", userId |-> "none"]

IdleWorker ==
  [pc |-> "idle", evt |-> 0, doc |-> NoRow, update |-> NoSub, stale |-> FALSE]

\* the document WebhookEvent.create inserts
newRow(type, t, payload) ==
  [type |-> type, occurredAt |-> t, payload |-> payload, status |-> "pending",
   failReason |-> "none", userId |-> payload.userId]

\* an insert that replaces the row of the same eventId
createRow_Overwrite(row, doc) == doc

\* WebhookEvent.create under the unique index on eventId: the row is inserted
\* when the eventId is new and left alone (error 11000) when it is not
createRow(row, doc) == IF row = NoRow THEN doc ELSE row

\* persistWebhookEvent: the duplicate-key error of a second delivery is
\* swallowed, any other store error is thrown again
persistWebhookEvent(e, type, t, payload, ok) ==
  /\ events' = IF ok THEN [events EXCEPT ![e] = createRow(events[e], newRow(type, t, payload))]
               ELSE events
  /\ pw' = IF ~ok THEN "raised"
            ELSE IF events[e] = NoRow THEN "created" ELSE "duplicate"
  /\ UNCHANGED <<subs, wk, sub0, bvars>>

\* a claim that also takes an event another worker is processing
isPending_OrProcessing(e) == events[e].status \in {"pending", "processing"}

\* a claim that takes an event of any status
isPending_Any(e) == events[e] # NoRow

\* the filter { status: 'pending' } of claimNextEvent
isPending(e) == events[e].status = "pending"

\* a claim without the sort
sortsFirst_Unsorted(e) == TRUE

\* the option { sort: { occurredAt: 1 } } of claimNextEvent
sortsFirst(e) ==
  \A o \in EventIds : isPending(o) => events[e].occurredAt <= events[o].occurredAt

\* claimNextEvent, one atomic findOneAndUpdate, at the top of the loop of
\* applySubscriptionState; without a pending event the loop ends
claimNextEvent(w) ==
  /\ wk[w].pc \in {"idle", "raised"}
  /\ \E e \in EventIds :
       /\ isPending(e)
       /\ sortsFirst(e)
       /\ events' = [events EXCEPT ![e].status = "processing", ![e].failReason = "none"]
       /\ wk' = [wk EXCEPT ![w] = [IdleWorker EXCEPT !.pc = "process", !.evt = e,
                                                      !.doc = events'[e]]]
  /\ pw' = NoPersist
  /\ UNCHANGED <<subs, sub0, bvars>>

RECURSIVE firstMapped(_)
\* getPlanFromItems: the first item whose price id maps to a plan
firstMapped(items) ==
  IF items = << >> THEN "none"
  ELSE IF PRICE_TO_PLAN(Head(items)) # "none" THEN Head(items)
  ELSE firstMapped(Tail(items))

getPlanFromItems(payload) ==
  LET pid == firstMapped(payload.items)
  IN [priceId |-> pid, plan |-> IF pid = "none" THEN "none" ELSE PRICE_TO_PLAN(pid)]

mapPaddleStatusToSubscriptionStatus(paddleStatus) ==
  IF paddleStatus \in SubscriptionStatus THEN paddleStatus ELSE "active"

\* resolveUserIdFromEvent: custom_data.user_id, else the customer link
resolveUserIdFromEvent(payload) ==
  IF payload.userId # "none" THEN payload.userId
  ELSE IF payload.customerId = "none" THEN "none"
  ELSE CustomerLink(payload.customerId)

GraceDays == 7

\* a grace time that is taken from the payload whatever the status is
gracePeriodUntilOf_FromPayload(status, graceAt, occurredAt) ==
  IF graceAt # 0 THEN graceAt
  ELSE IF status = "past_due" THEN occurredAt + GraceDays ELSE 0

\* the grace logic of processOne: the payload's grace time, else seven days
\* after the event, while past_due; null (0) otherwise
gracePeriodUntilOf(status, graceAt, occurredAt) ==
  IF status = "past_due"
  THEN (IF graceAt # 0 THEN graceAt ELSE occurredAt + GraceDays)
  ELSE 0

\* the update document of processOne; a field it leaves out is "unset" or 0
updateOf(payload, occurredAt) ==
  LET status == mapPaddleStatusToSubscriptionStatus(payload.status)
      periodEnd == periodEndOf(payload)
      mapped == getPlanFromItems(payload)
  IN [paddleSubscriptionId |-> payload.subId,
      paddleCustomerId |-> payload.customerId,
      status |-> status,
      lastEventAt |-> occurredAt,
      gracePeriodUntil |-> gracePeriodUntilOf(status, payload.graceAt, occurredAt),
      currentPeriodStart |-> payload.periodStart,
      currentPeriodEnd |->
        IF periodEnd # 0 \/ payload.cancelAt # 0
        THEN (IF payload.cancelAt # 0 THEN payload.cancelAt ELSE periodEnd)
        ELSE 0,
      planId |-> IF mapped.plan = "none" THEN "unset" ELSE mapped.plan,
      priceId |-> IF mapped.priceId = "none" THEN "unset" ELSE mapped.priceId]

\* $set: update on a document (or on the document an upsert inserts)
applySet(doc, update) ==
  [paddleSubscriptionId |-> update.paddleSubscriptionId,
   paddleCustomerId |-> update.paddleCustomerId,
   status |-> update.status,
   lastEventAt |-> update.lastEventAt,
   gracePeriodUntil |-> update.gracePeriodUntil,
   currentPeriodStart |->
     IF update.currentPeriodStart = 0 THEN doc.currentPeriodStart
     ELSE update.currentPeriodStart,
   currentPeriodEnd |->
     IF update.currentPeriodEnd = 0 THEN doc.currentPeriodEnd ELSE update.currentPeriodEnd,
   planId |-> IF update.planId = "unset" THEN doc.planId ELSE update.planId,
   priceId |-> IF update.priceId = "unset" THEN doc.priceId ELSE update.priceId]

\* a filter that also lets an event of the same instant through
filterMatches_Lte(doc, occurredAt) ==
  doc # NoSub /\ doc.lastEventAt <= occurredAt

\* { userId, $or: [{lastEventAt: {$lt: occurredAt}}, {lastEventAt: {$exists: false}}] }
filterMatches(doc, occurredAt) ==
  doc # NoSub /\ (doc.lastEventAt < occurredAt \/ doc.lastEventAt = 0)

\* the insert half of an upsert on the collection with its unique index on
\* userId: it is rejected (E11000) when the user has a document by then
insertOf(doc, update) ==
  IF doc = NoSub
  THEN [threw |-> FALSE, found |-> TRUE, doc |-> applySet(NoSub, update)]
  ELSE [threw |-> TRUE, found |-> FALSE, doc |-> doc]

\* Subscription.findOneAndUpdate(filter, {$setOnInsert, $set}, {upsert: true, new: true}):
\* the matching document is updated; without a match a document is inserted
findOneAndUpdate(doc, occurredAt, update) ==
  IF filterMatches(doc, occurredAt)
  THEN [threw |-> FALSE, found |-> TRUE, doc |-> applySet(doc, update)]
  ELSE insertOf(doc, update)

\* an early return that reports the event as failed
Ignored_AsFailed(doc, userId, reason) ==
  [doc EXCEPT !.userId = userId, !.status = "failed", !.failReason = reason]

\* evt.status = 'ignored'; evt.failReason = reason; return
Ignored(doc, userId, reason) ==
  [doc EXCEPT !.userId = userId, !.status = "ignored", !.failReason = reason]

\* processOne up to Subscription.findOne: the user, the update, the early
\* returns
processLookup(w) ==
  /\ wk[w].pc = "process"
  /\ LET evt == wk[w].doc
         userId == IF evt.userId # "none" THEN evt.userId
                   ELSE resolveUserIdFromEvent(evt.payload)
     IN wk' =
             IF userId = "none"
             THEN [wk EXCEPT ![w].pc = "save",
                             ![w].doc = Ignored(evt, userId, "user_not_found")]
             ELSE IF evt.payload.subId = "none"
             THEN [wk EXCEPT ![w].pc = "save",
                             ![w].doc = Ignored(evt, userId, "no_subscription_id")]
             ELSE IF subs[userId] = NoSub /\ getPlanFromItems(evt.payload).plan = "none"
             THEN [wk EXCEPT ![w].pc = "save",
                             ![w].doc = Ignored(evt, userId, "price_not_mapped")]
             ELSE [wk EXCEPT ![w].pc = "upsert", ![w].doc.userId = userId,
                             ![w].update = updateOf(evt.payload, evt.occurredAt)]
  /\ pw' = NoPersist
  /\ UNCHANGED <<subs, events, sub0, bvars>>

\* what processOne makes of the upsert's result, and the catch of
\* applySubscriptionState of the error it throws: failReason is the start of
\* the error's message, which names the error
outcomeOf(res) ==
  IF res.threw THEN [status |-> "failed", failReason |-> "E11000"]
  ELSE IF ~res.found THEN [status |-> "ignored", failReason |-> "stale_event"]
  ELSE [status |-> "processed", failReason |-> "none"]

\* the conditional upsert of processOne: the query of findOneAndUpdate and,
\* when a document matches, its update in the same store operation; when the
\* user has no document the insert follows as an operation of its own
processUpsert(w) ==
  /\ wk[w].pc = "upsert"
  /\ LET evt == wk[w].doc
         userId == evt.userId
         res == findOneAndUpdate(subs[userId], evt.occurredAt, wk[w].update)
         stale == subs[userId] # NoSub /\ subs[userId].lastEventAt > evt.occurredAt
         outcome == outcomeOf(res)
     IN IF subs[userId] = NoSub
        THEN /\ wk' = [wk EXCEPT ![w].pc = "insert"]
             /\ subs' = subs
        ELSE /\ subs' = [subs EXCEPT ![userId] = res.doc]
             /\ wk' = [wk EXCEPT ![w].pc = "save", ![w].stale = stale,
                                  ![w].doc.status = outcome.status,
                                  ![w].doc.failReason = outcome.failReason]
  /\ pw' = NoPersist
  /\ UNCHANGED <<events, sub0, bvars>>

\* the insert of an upsert whose query found no document of the user
upsertInsert(w) ==
  /\ wk[w].pc = "insert"
  /\ LET evt == wk[w].doc
         userId == evt.userId
         res == insertOf(subs[userId], wk[w].update)
         outcome == outcomeOf(res)
     IN /\ subs' = [subs EXCEPT ![userId] = res.doc]
        /\ wk' = [wk EXCEPT ![w].pc = "save",
                             ![w].doc.status = outcome.status,
                             ![w].doc.failReason = outcome.failReason]
  /\ pw' = NoPersist
  /\ UNCHANGED <<events, sub0, bvars>>

\* evt.save() at the end of the loop body, outside the try: when it throws,
\* applySubscriptionState throws and the row stays as the claim left it
saveEvent(w, ok) ==
  /\ wk[w].pc = "save"
  /\ events' = IF ok THEN [events EXCEPT ![wk[w].evt] = wk[w].doc] ELSE events
  /\ wk' = [wk EXCEPT ![w] = IF ok THEN IdleWorker
                             ELSE [IdleWorker EXCEPT !.pc = "raised", !.evt = wk[w].evt]]
  /\ pw' = NoPersist
  /\ UNCHANGED <<subs, sub0, bvars>>

ExistingSub == PaidSub("basic", "active")

InitReconciler ==
  /\ NoLedger
  /\ subs \in [Users -> {NoSub, ExistingSub}]
  /\ sub0 = subs["u1"]
  /\ events = [e \in EventIds |-> NoRow]
  /\ wk = [w \in Workers |-> IdleWorker]
  /\ pw = NoPersist
  /\ rolling = [t \in Tiers |-> 0]
  /\ weekly = [t \in Tiers |-> 0]
  /\ monthly = [t \in Tiers |-> 0]
  /\ cogsCents = 0
  /\ now = 0
  /\ ia = IdleIa
  /\ ct = IdleCt
  /\ zset = << >>
  /\ cg = IdleCg

\* a delivery of a new event (event ids are numbered as they first arrive),
\* and a delivery under the eventId of a stored one
Deliveries ==
  \/ \E e \in EventIds, t \in 1..MaxTime :
       \E n \in Notifications(t) :
         /\ events[e] = NoRow
         /\ \A o \in 1..(e - 1) : events[o] # NoRow
         /\ persistWebhookEvent(e, n.type, t, n.payload, TRUE)
  \/ \E e \in EventIds, ok \in BOOLEAN :
       \E payload \in StrayPayloads \cup {events[e].payload} :
         /\ events[e] # NoRow
         /\ persistWebhookEvent(e, events[e].type, events[e].occurredAt, payload, ok)

NextReconciler ==
  \/ Deliveries
  \/ \E w \in Workers : claimNextEvent(w)
  \/ \E w \in Workers : processLookup(w)
  \/ \E w \in Workers : processUpsert(w)
  \/ \E w \in Workers : upsertInsert(w)
  \/ \E w \in Workers, ok \in BOOLEAN : saveEvent(w, ok)

SpecReconciler == InitReconciler /\ [][NextReconciler]_vars

\* one drain job at a time: a single worker runs applySubscriptionState
NextDrain ==
  \/ Deliveries
  \/ claimNextEvent("w1")
  \/ processLookup("w1")
  \/ processUpsert("w1")
  \/ upsertInsert("w1")
  \/ \E ok \in BOOLEAN : saveEvent("w1", ok)

SpecDrain == InitReconciler /\ [][NextDrain]_vars

\* the drain job keeps being invoked and every step of it that can be taken
\* is taken in the end
SpecDrainFair ==
  /\ SpecDrain
  /\ WF_vars(claimNextEvent("w1"))
  /\ WF_vars(processLookup("w1"))
  /\ WF_vars(processUpsert("w1"))
  /\ WF_vars(upsertInsert("w1"))
  /\ WF_vars(\E ok \in BOOLEAN : saveEvent("w1", ok))

----------------------------------------------------------------------------
(* The usage ledger under the entitlement engine: a free-plan user *)

\* the window of the free plan's economy limit
WindowOf == PLANS.free.windowLimits[1].windowSeconds

InitUsage ==
  /\ NoLedger
  /\ subs = [u \in Users |-> NoSub]
  /\ sub0 = NoSub
  /\ events = << >>
  /\ wk = << >>
  /\ pw = NoPersist
  /\ rolling = [t \in Tiers |-> 0]
  /\ weekly = [t \in Tiers |-> 0]
  /\ monthly = [t \in Tiers |-> 0]
  /\ cogsCents = 0
  /\ now \in Epochs
  /\ ia = IdleIa
  /\ ct = IdleCt
  /\ zset = << >>
  /\ cg = IdleCg

\* isAllowed and chooseTier read the counter of a tier with a window limit
\* through getRollingWindowUsage and decide on what it returned
NextUsage ==
  \/ Tick
  \/ trackUsage
  \/ getRollingWindowUsage(WindowOf)
  \/ Fresh(WindowOf) /\ IsAllowedCall("economy", "none")
  \/ ChooseTierStart("economy", TRUE)
  \/ /\ ChooseTierIter("none")
     /\ ct.tiersToTry[ct.i] = "economy" => Fresh(WindowOf)

SpecUsage == InitUsage /\ [][NextUsage]_vars

----------------------------------------------------------------------------
(* The cost guard on its own: accumulated cost and budget in cents *)

Budgets == {PLANS[p].monthlyCogsBudgetCents : p \in PlanIds}

\* the accumulator at, and one cent below, 50, 90, 100, 110 and 120 % of a budget
CogsGrid ==
  {0} \cup {(pct * b) \div 100 - d : b \in Budgets \ {0},
                                     pct \in {50, 90, 100, 110, 120}, d \in {0, 1}}

InitCostGuard ==
  /\ NoLedger
  /\ subs = [u \in Users |-> NoSub]
  /\ sub0 = NoSub
  /\ events = << >>
  /\ wk = << >>
  /\ pw = NoPersist
  /\ rolling = [t \in Tiers |-> 0]
  /\ weekly = [t \in Tiers |-> 0]
  /\ monthly = [t \in Tiers |-> 0]
  /\ cogsCents \in CogsGrid
  /\ now = 0
  /\ ia = IdleIa
  /\ ct = IdleCt
  /\ zset = << >>
  /\ cg = IdleCg

NextCostGuard == \E budget \in Budgets : CheckCostGuardCall(budget)

SpecCostGuard == InitCostGuard /\ [][NextCostGuard]_vars

----------------------------------------------------------------------------
(* The counters of the usage ledger on their own, over the turn of a week, *)
(* of a month and of a year                                                 *)

InitLedger ==
  /\ NoLedger
  /\ subs = [u \in Users |-> NoSub]
  /\ sub0 = NoSub
  /\ events = << >>
  /\ wk = << >>
  /\ pw = NoPersist
  /\ rolling = [t \in Tiers |-> 0]
  /\ weekly = [t \in Tiers |-> 0]
  /\ monthly = [t \in Tiers |-> 0]
  /\ cogsCents = 0
  /\ now = Instants[1].sec
  /\ ia = IdleIa
  /\ ct = IdleCt
  /\ zset = << >>
  /\ cg = IdleCg

NextLedger ==
  \/ Advance
  \/ zset = << >> /\ trackUsage
  \/ \E c \in Callers, tier \in LedgerTiers : incrementWeeklyUsage(c, tier)
  \/ \E c \in Callers, tier \in LedgerTiers : getWeeklyUsage(c, tier)
  \/ \E c \in Callers, tier \in LedgerTiers : incrementMonthlySoftCap(c, tier)
  \/ \E c \in Callers, tier \in LedgerTiers : getMonthlySoftCap(c, tier)
  \/ \E c \in Callers, promptTokens \in TokenCounts, completionTokens \in TokenCounts,
        exchangeRate \in RatesPct :
       trackTokenCost(c, promptTokens, completionTokens, exchangeRate)
  \/ \E c \in Callers : getMonthlyCogs(c)
  \/ \E c \in Callers : ensureExpireAtTtl(c)
  \/ \E c \in Callers : ensureExpireAtSet(c)

SpecLedger == InitLedger /\ [][NextLedger]_vars

----------------------------------------------------------------------------
(* Properties of the entitlement engine, checked under SpecBilling *)

Range(seq) == {seq[k] : k \in 1..Len(seq)}

Last(seq) == seq[Len(seq)]

\* what a plan's limits say about a tier and the user's counters
WindowExceeded(plan, tier) ==
  \E k \in 1..Len(plan.windowLimits) :
    plan.windowLimits[k].tier = tier /\ rolling[tier] >= plan.windowLimits[k].limit

WeeklyExceeded(plan, tier) ==
  \E k \in 1..Len(plan.weeklyLimits) :
    plan.weeklyLimits[k].tier = tier /\ weekly[tier] >= plan.weeklyLimits[k].limit

SoftCapExceeded(plan, tier) ==
  \E k \in 1..Len(plan.monthlySoftCaps) :
    plan.monthlySoftCaps[k].tier = tier /\ monthly[tier] >= plan.monthlySoftCaps[k].cap

CostGuardBlocks(plan) ==
  /\ plan.monthlyCogsBudgetCents > 0
  /\ cogsCents * 100 >= 110 * plan.monthlyCogsBudgetCents

ExpectedReason(plan, tier) ==
  IF WindowExceeded(plan, tier) THEN "window_cap"
  ELSE IF WeeklyExceeded(plan, tier) THEN "weekly_cap"
  ELSE IF SoftCapExceeded(plan, tier) THEN "soft_cap"
  ELSE IF CostGuardBlocks(plan) THEN "cost_guard"
  ELSE "ok"

CheckRank(c) ==
  CASE c = "window" -> 1 [] c = "weekly" -> 2 [] c = "soft" -> 3 [] OTHER -> 4

ReasonRank(r) ==
  CASE r = "window_cap" -> 1 [] r = "weekly_cap" -> 2 [] r = "soft_cap" -> 3 [] OTHER -> 4

ResolvedPlan == getPlanById(planIdOf(subscription))

\* C1: an isAllowed call that no store failure interrupts reports the first
\* failing check of the order rolling window, weekly, soft cap, cost guard
\* (ok when none fails), makes its store reads in that order, and makes no
\* read of a check that comes after the one that decided.
C1_FixedOrder ==
  (ia.pc = "done" /\ ~ia.res.threw) =>
    /\ ia.res.reason = ExpectedReason(ResolvedPlan, ia.tier)
    /\ ia.res.allowed = (ia.res.reason = "ok")
    /\ \A j \in 1..Len(ia.res.checks) :
         /\ CheckRank(ia.res.checks[j]) <= ReasonRank(ia.res.reason)
         /\ j > 1 => CheckRank(ia.res.checks[j - 1]) <= CheckRank(ia.res.checks[j])
    /\ ia.res.checks # << >>
    /\ CheckRank(Last(ia.res.checks)) = ReasonRank(ia.res.reason)

\* every limit of the tier is exceeded at once and the window cap is reported
C1_Witness ==
  /\ ia.pc = "done" /\ ~ia.res.threw
  /\ ia.res.reason = "window_cap" /\ ia.res.checks = << "window" >>
  /\ WeeklyExceeded(ResolvedPlan, ia.tier)
  /\ SoftCapExceeded(ResolvedPlan, ia.tier)
  /\ CostGuardBlocks(ResolvedPlan)

\* C2: a store failure during isAllowed ends in allowed = false, reason error
\* and no resetETA; a failure of chooseTier's own plan lookup ends in
\* economy_mini with reason error and no resetETA.  Every finished call holds
\* a result object.
C2_FailClosed ==
  /\ (ia.pc = "done" /\ ia.res.threw) =>
       (~ia.res.allowed /\ ia.res.reason = "error" /\ ia.res.resetETA = NoEta)
  /\ (ct.pc = "done" /\ ct.threw) =>
       /\ ct.result.effectiveTier = "economy_mini"
       /\ ct.result.reason = "error"
       /\ ct.result.resetETA = NoEta
  /\ ia.pc = "done" =>
       ia.res.reason \in {"ok", "window_cap", "weekly_cap", "soft_cap", "cost_guard", "error"}
  /\ ct.pc = "done" => ct.result.effectiveTier \in Tiers

\* the counter store failed after an earlier check had passed
C2_Witness ==
  /\ ia.pc = "done" /\ ia.res.threw
  /\ Len(ia.res.checks) >= 2
  /\ ia.res.reason = "error"

\* the candidates of the plan the Subscription record names
CandidateSet == Range(candidates(ct.req, ResolvedPlan))

\* C3 as stated: chooseTier always returns a tier of [requestedTier] ++
\* fallbackChain of the user's plan, store failures included.
C3_Original ==
  ct.pc = "done" => ct.result.effectiveTier \in CandidateSet

\* C3 amended: chooseTier returns a tier of [requestedTier] ++ fallbackChain of
\* the plan of the user's Subscription record (free without one), except that
\* it returns economy_mini with reason error when its own plan lookup fails.
C3_Amended ==
  ct.pc = "done" =>
    /\ ct.result.effectiveTier \in Tiers
    /\ IF ct.threw
       THEN ct.result.effectiveTier = "economy_mini" /\ ct.result.reason = "error"
       ELSE ct.result.effectiveTier \in CandidateSet

\* the plan lookup of a paid-plan user failed and the tier served is not one
\* of the user's candidates
C3_Witness ==
  /\ ct.pc = "done" /\ ct.threw
  /\ ct.result.effectiveTier = "economy_mini"
  /\ "economy_mini" \notin CandidateSet
  /\ subscription # NoSub

\* C4: the candidates are evaluated in order, the first allowed one is
\* returned with reason ok, and a denied candidate is returned only when no
\* candidate of another tier that was left unevaluated is allowed (allowed:
\* what isAllowed answers for it in this state when no store call fails).
C4_NoAllowedSkipped ==
  (ct.pc = "done" /\ ~ct.threw) =>
    /\ \A j \in 1..Len(ct.calls) :
         /\ ct.calls[j].tier = ct.tiersToTry[j]
         /\ j < Len(ct.calls) => ~ct.calls[j].allowed
    /\ Last(ct.calls).allowed =>
         (ct.result.effectiveTier = Last(ct.calls).tier /\ ct.result.reason = "ok")
    /\ ~Last(ct.calls).allowed =>
         \A j \in (Len(ct.calls) + 1)..Len(ct.tiersToTry) :
           ct.tiersToTry[j] # ct.result.effectiveTier =>
             ~isAllowed(ct.tiersToTry[j], "none", now).allowed

\* C5: an allowed requested tier is returned with reason ok after exactly one
\* isAllowed call, and in every run the calls made are those of the
\* candidates up to the returned one, in order, the returned one last.
C5_NoLaterCalls ==
  (ct.pc = "done" /\ ~ct.threw) =>
    /\ ct.calls # << >>
    /\ ct.calls[1].allowed =>
         /\ Len(ct.calls) = 1
         /\ ct.result.effectiveTier = ct.req
         /\ ct.result.reason = "ok"
    /\ \A j \in 1..Len(ct.calls) : ct.calls[j].tier = ct.tiersToTry[j]
    /\ ct.result.effectiveTier = Last(ct.calls).tier
    /\ \A j \in 1..(Len(ct.calls) - 1) : ~ct.calls[j].allowed

\* the requested tier is allowed and the plan has fallback candidates left
C5_Witness ==
  /\ ct.pc = "done" /\ ~ct.threw
  /\ ct.calls # << >> /\ ct.calls[1].allowed
  /\ Len(ct.tiersToTry) = 4

\* C6: when every candidate has been denied, the tier returned is the last
\* element of the fallback chain, with the reason and resetETA of the
\* isAllowed check made for it last.
C6_LastResort ==
  (ct.pc = "done" /\ ~ct.threw /\ \A j \in 1..Len(ct.calls) : ~ct.calls[j].allowed) =>
    /\ ct.result.effectiveTier = Last(ResolvedPlan.fallbackChain)
    /\ Last(ct.calls).tier = ct.result.effectiveTier
    /\ ct.result.reason = Last(ct.calls).reason
    /\ ct.result.resetETA = Last(ct.calls).resetETA

\* three candidates denied, the first and the last with different reset times
C6_Witness ==
  /\ ct.pc = "done" /\ ~ct.threw
  /\ Len(ct.calls) = 3 /\ Len(ct.tiersToTry) = 3
  /\ \A j \in 1..3 : ~ct.calls[j].allowed
  /\ ct.calls[1].resetETA # ct.calls[3].resetETA
  /\ ct.calls[3].resetETA # NoEta

\* the plan the claim says a user is evaluated against
ActivePlanId ==
  IF subscription # NoSub /\ subscription.status = "active"
  THEN subscription.planId ELSE "free"

\* C7: isAllowed evaluates the user against the Subscription's plan only when
\* the Subscription is active, and against the free plan otherwise.
C7_ActiveOnly ==
  (ia.pc = "done" /\ ~ia.res.threw) =>
    LET claimed == evaluate(getPlanById(ActivePlanId), ia.tier, "none", now)
    IN ia.res.allowed = claimed.allowed /\ ia.res.reason = claimed.reason

----------------------------------------------------------------------------
(* Properties of the webhook reconciler: C8 and C9 are about one drain job *)
(* and are checked under SpecDrain, C10 under SpecReconciler              *)

Terminal == {"processed", "failed", "ignored"}

\* C8: an event that the drain loop processes while the user's Subscription
\* carries a newer lastEventAt leaves the loop body with status ignored and
\* failReason stale_event, the Subscription being left as it was.
C8_StaleIgnored ==
  \A w \in Workers :
    (wk[w].pc = "save" /\ wk[w].stale) =>
      (wk[w].doc.status = "ignored" /\ wk[w].doc.failReason = "stale_event")

\* what processing a row on its own makes of a Subscription document
applied(doc, row) ==
  LET userId == IF row.userId # "none" THEN row.userId
                ELSE resolveUserIdFromEvent(row.payload)
  IN IF userId = "none" \/ row.payload.subId = "none" THEN doc
     ELSE IF doc = NoSub /\ getPlanFromItems(row.payload).plan = "none" THEN doc
     ELSE findOneAndUpdate(doc, row.occurredAt, updateOf(row.payload, row.occurredAt)).doc

\* C9: once two events of the user with occurredAt T1 < T2 have both been
\* processed, in whichever order, the Subscription is the one that applying
\* T1 and then T2 gives, with lastEventAt = T2 when T2 is applicable.
C9_Converges ==
  \A e1 \in EventIds, e2 \in EventIds :
    ( /\ events[e1].status \in Terminal /\ events[e2].status \in Terminal
      /\ events[e1].occurredAt < events[e2].occurredAt
      /\ \A o \in EventIds \ {e1, e2} : events[o] = NoRow
      /\ \A w \in Workers : wk[w].pc = "idle" )
    => subs["u1"] = applied(applied(sub0, events[e1]), events[e2])

\* C10: a step changes a Subscription only while a worker applies an event
\* whose occurredAt is strictly greater than the lastEventAt the document had
\* (any event when there was no document), and lastEventAt becomes that
\* occurredAt: it never decreases and an event of the same instant changes
\* nothing.
C10_Watermark ==
  [][\A u \in Users :
       subs'[u] # subs[u] =>
         /\ subs'[u] # NoSub
         /\ subs'[u].lastEventAt > subs[u].lastEventAt
         /\ \E w \in Workers :
              /\ wk[w].pc \in {"upsert", "insert"} /\ wk[w].doc.userId = u
              /\ wk[w].doc.occurredAt = subs'[u].lastEventAt]_vars

\* an event of the same instant as the document's lastEventAt, carrying
\* another status, has gone through the upsert without being applied
C10_Witness ==
  \E w \in Workers :
    /\ wk[w].pc = "save"
    /\ wk[w].doc.status = "failed"
    /\ wk[w].doc.occurredAt = subs["u1"].lastEventAt
    /\ wk[w].update.status # subs["u1"].status
    /\ sub0 = NoSub

----------------------------------------------------------------------------
(* Properties of the event queue: deliveries, claims and outcomes *)

\* the step is a persistWebhookEvent call
PersistStep == pw' # NoPersist

\* the step is worker w claiming an event at the top of its loop
ClaimStep(w) == wk[w].pc \in {"idle", "raised"} /\ wk'[w].pc = "process"

\* C11: a persistWebhookEvent call changes no stored row, whatever payload
\* it carries, and adds at most one; a call for a stored eventId returns
\* normally (the duplicate is swallowed) with the collection as it was, and
\* a call that creates a row creates it pending.
C11_OneRow ==
  [][PersistStep =>
       /\ \A e \in EventIds : events[e] # NoRow => events'[e] = events[e]
       /\ Cardinality({e \in EventIds : events'[e] # events[e]}) <= 1
       /\ pw' \in {"created", "duplicate", "raised"}
       /\ pw' # "created" => events' = events
       /\ pw' = "created" =>
            \E e \in EventIds : events[e] = NoRow /\ events'[e].status = "pending"
       /\ (\A e \in EventIds : events[e] # NoRow) => pw' # "created"
       /\ wk' = wk /\ subs' = subs]_vars

\* a second delivery of an event that has been processed has just returned
C11_Witness ==
  /\ pw = "duplicate"
  /\ \E e \in EventIds : events[e].status = "processed"

\* C12: a worker claims an event only while the event is pending, the claim
\* makes it processing, and no other worker holds that event: an event is
\* handed to processOne by at most one worker.
C12_SingleClaim ==
  [][\A w \in Workers :
       ClaimStep(w) =>
         /\ events[wk'[w].evt].status = "pending"
         /\ events'[wk'[w].evt].status = "processing"
         /\ \A o \in Workers \ {w} : wk'[o].evt # wk'[w].evt]_vars

\* two workers are inside processOne at once, each with its own event
C12_Witness ==
  /\ wk["w1"].pc = "upsert" /\ wk["w2"].pc = "upsert"
  /\ wk["w1"].evt # wk["w2"].evt

\* a subscription event of the user that carries a mapped price
Applicable(row) ==
  /\ row.payload.userId = "u1"
  /\ row.payload.subId # "none"
  /\ getPlanFromItems(row.payload).plan # "none"

\* C13: once two workers have processed two events of the user with
\* occurredAt T1 < T2, each carrying a subscription id and a mapped price, the
\* Subscription carries lastEventAt = T2 and the status and plan of the T2
\* event, whether or not the user had a Subscription before.
C13_NoLostUpdate ==
  \A e1 \in EventIds, e2 \in EventIds :
    ( /\ events[e1].status \in {"processed", "failed"}
      /\ events[e2].status \in {"processed", "failed"}
      /\ Applicable(events[e1]) /\ Applicable(events[e2])
      /\ events[e1].occurredAt < events[e2].occurredAt
      /\ \A w \in Workers : wk[w].pc = "idle" )
    => /\ subs["u1"].lastEventAt = events[e2].occurredAt
       /\ subs["u1"].status =
            mapPaddleStatusToSubscriptionStatus(events[e2].payload.status)
       /\ subs["u1"].planId = getPlanFromItems(events[e2].payload).plan

\* C14: the event a claim takes is pending and no pending event has a
\* smaller occurredAt; a single worker therefore takes the events that are
\* pending together in ascending occurredAt order.
C14_OldestFirst ==
  [][\A w \in Workers :
       ClaimStep(w) =>
         /\ events[wk'[w].evt].status = "pending"
         /\ \A o \in EventIds :
              events[o].status = "pending" =>
                events[wk'[w].evt].occurredAt <= events[o].occurredAt]_vars

\* the worker holds the event that arrived second while the event that
\* arrived first, which occurred later, is still pending
C14_Witness ==
  /\ wk["w1"].pc = "process" /\ wk["w1"].evt = 2
  /\ events[1].status = "pending"
  /\ events[1].occurredAt > events[2].occurredAt

\* C15: a row changes only by being created pending, by a claim that takes
\* it from pending to processing, or by the save of the worker that holds
\* it, which takes it from processing to processed, failed or ignored; a
\* row in one of these three statuses never changes again.
C15_StatusMachine ==
  [][\A e \in EventIds :
       events'[e] # events[e] =>
         \/ events[e] = NoRow /\ events'[e].status = "pending"
         \/ /\ events[e].status = "pending" /\ events'[e].status = "processing"
            /\ \E w \in Workers : ClaimStep(w) /\ wk'[w].evt = e
         \/ /\ events[e].status = "processing" /\ events'[e].status \in Terminal
            /\ \E w \in Workers : wk[w].pc = "save" /\ wk[w].evt = e]_vars

\* one event has failed and stays as it is while the other one is processed
C15_Witness ==
  /\ events[1].status = "failed"
  /\ events[2].status = "processing"
  /\ \E w \in Workers : wk[w].pc = "save" /\ wk[w].evt = 2

\* C16: applySubscriptionState never raises, and an event whose handling
\* failed, while it was processed or while its outcome was saved, does not
\* stay in processing: the loop marks it failed and goes on.
C16_BatchContinues ==
  /\ \A w \in Workers : wk[w].pc # "raised"
  /\ \A e \in EventIds :
       events[e].status = "processing" =>
         \E w \in Workers :
           wk[w].evt = e /\ wk[w].pc \in {"process", "upsert", "insert", "save"}

\* the event has no user: neither custom_data.user_id nor a linked customer
NoUserOf(evt) ==
  /\ evt.userId = "none" /\ evt.payload.userId = "none"
  /\ evt.payload.customerId = "none" \/ CustomerLink(evt.payload.customerId) = "none"

\* the user of an event that has one
UserOf(evt) ==
  IF evt.userId # "none" THEN evt.userId
  ELSE IF evt.payload.userId # "none" THEN evt.payload.userId
  ELSE CustomerLink(evt.payload.customerId)

NoMappedPrice(evt) ==
  \A k \in 1..Len(evt.payload.items) : PRICE_TO_PLAN(evt.payload.items[k]) = "none"

\* C17: processOne leaves an event without a user as ignored/user_not_found,
\* one without a subscription id as ignored/no_subscription_id, and one
\* without a mapped price for a user without a Subscription as
\* ignored/price_not_mapped; no Subscription changes in that step nor when
\* the ignored event is saved, and the saved row is ignored with that reason.
C17_IgnoredReasons ==
  [][\A w \in Workers :
       /\ (wk[w].pc = "process" /\ wk'[w].pc # "process") =>
            LET evt == wk[w].doc
                reason == IF NoUserOf(evt) THEN "user_not_found"
                          ELSE IF evt.payload.subId = "none" THEN "no_subscription_id"
                          ELSE IF subs[UserOf(evt)] = NoSub /\ NoMappedPrice(evt)
                          THEN "price_not_mapped"
                          ELSE "none"
            IN reason # "none" =>
                 /\ wk'[w].pc = "save"
                 /\ wk'[w].doc.status = "ignored"
                 /\ wk'[w].doc.failReason = reason
                 /\ subs' = subs
       /\ (wk[w].pc = "save" /\ wk'[w].pc = "idle" /\ wk[w].doc.status = "ignored") =>
            /\ subs' = subs
            /\ events'[wk[w].evt].status = "ignored"
            /\ events'[wk[w].evt].failReason = wk[w].doc.failReason]_vars

\* an event without a user and one without a mapped price have been saved
\* as ignored, and the user has no Subscription
C17_Witness ==
  /\ \E e \in EventIds :
       events[e].status = "ignored" /\ events[e].failReason = "user_not_found"
  /\ \E e \in EventIds :
       events[e].status = "ignored" /\ events[e].failReason = "price_not_mapped"
  /\ subs["u1"] = NoSub

----------------------------------------------------------------------------
(* Properties of the usage ledger, checked under SpecUsage, and of the     *)
(* cost guard, checked under SpecCostGuard                                 *)

\* the economy events recorded less than windowSeconds ago
RecentEvents(windowSeconds) ==
  Cardinality({k \in 1..Len(zset) : now - zset[k].at < windowSeconds})

\* C18: once a free-plan user has recorded 10 economy events within the
\* last 5 hours, isAllowed(u, economy) answers not allowed with reason
\* window_cap and chooseTier(u, economy) answers economy_mini with reason
\* window_cap.
C18_FreeWindowCap ==
  /\ (ia.pc = "done" /\ ia.tier = "economy" /\ RecentEvents(FIVE_HOURS) >= 10) =>
       (~ia.res.allowed /\ ia.res.reason = "window_cap")
  /\ (ct.pc = "done" /\ ct.req = "economy" /\ RecentEvents(FIVE_HOURS) >= 10) =>
       (ct.result.effectiveTier = "economy_mini" /\ ct.result.reason = "window_cap")

C20_PruneStable ==
  LET once == zremrangebyscore(zset, now, FIVE_HOURS)
  IN /\ zremrangebyscore(once, now, FIVE_HOURS) = once
     /\ (zset # << >> /\ \A k \in 1..Len(zset) : now > zset[k].at + FIVE_HOURS) =>
          zcard(once) = 0

----------------------------------------------------------------------------
(* Properties of the counters of the usage ledger, checked under SpecLedger *)

\* the Monday of the Monday-to-Sunday UTC week an instant lies in
MondayOf(s) == dayOf(s) - ((dayOf(s) + 3) % 7)

\* the ISO-8601 week label of an instant: the year of the Thursday of its
\* week, and the number of that Thursday among the Thursdays of the year
IsoWeekLabel(s) ==
  LET thursday == MondayOf(s) + 3
      year == civilFromDays(thursday).year
      week == (thursday - daysFromCivil(year, 1, 1)) \div 7 + 1
  IN << year, week \div 10, week % 10 >>

WeeklyOps == {"incrementWeeklyUsage", "getWeeklyUsage"}

\* C21: a weekly call made at an instant addresses the counter that a weekly
\* call at another instant addresses exactly when the two instants lie in the
\* same Monday-to-Sunday UTC week, and the key carries the ISO-8601 week label
\* of the instant.
C21_WeekKey ==
  \A c \in Callers :
    uc[c].op \in WeeklyOps =>
      /\ \A i \in 1..Len(Instants) :
           (weekKey(Instants[i].sec, "u1", uc[c].key.tier).key = uc[c].key)
             <=> (MondayOf(Instants[i].sec) = MondayOf(uc[c].at))
      /\ uc[c].key.label = IsoWeekLabel(uc[c].at)

\* the UTC calendar month an instant lies in, found among the months of 2026
\* and 2027 by the first days of the month and of the month after it
MonthLabel(s) ==
  LET p == CHOOSE q \in (2026..2027) \X (1..12) :
             /\ daysFromCivil(q[1], q[2], 1) <= dayOf(s)
             /\ dayOf(s) < (IF q[2] = 12 THEN daysFromCivil(q[1] + 1, 1, 1)
                            ELSE daysFromCivil(q[1], q[2] + 1, 1))
  IN << p[1], p[2] \div 10, p[2] % 10 >>

MonthlyReads == {"getMonthlySoftCap", "getMonthlyCogs"}

MonthlyOps == {"incrementMonthlySoftCap", "trackTokenCost"} \cup MonthlyReads

\* C22: a call on the monthly soft-cap counter or on the monthly cost
\* accumulator addresses the counter of the UTC calendar month of the instant
\* of the call: a counter only changes at instants of the month it is
\* labelled with, and a read returns the value of the counter of its month.
C22_MonthKey ==
  [][/\ \A c \in Callers :
          (Returned(c) /\ uc'[c].op \in MonthlyOps /\ uc'[c] # uc[c]) =>
             /\ uc'[c].key.label = MonthLabel(now)
             /\ uc'[c].op \in MonthlyReads =>
                  uc'[c].ret = (IF uc'[c].key \in DOMAIN ctr THEN ctr[uc'[c].key] ELSE 0)
     /\ \A k \in DOMAIN ctr' :
          (k.kind \in {"month", "cogs"} /\ (k \notin DOMAIN ctr \/ ctr'[k] # ctr[k])) =>
             k.label = MonthLabel(now)]_vars

\* the counter of November 2026 has gone and the first increment of the soft
\* cap in December, made in its first millisecond, returned 1
C22_Witness ==
  \E c \in Callers :
    /\ uc[c].op = "incrementMonthlySoftCap"
    /\ uc[c].at = Instants[4].sec /\ msec = Instants[4].ms /\ now = uc[c].at
    /\ uc[c].key.label = << 2026, 1, 2 >>
    /\ uc[c].ret = 1
    /\ \A k \in DOMAIN ctr : k.kind = "month" => k = uc[c].key

\* the last whole second of the Monday-to-Sunday week of an instant
WeekEndSec(s) == (MondayOf(s) + 7) * DaySeconds - 1

\* the last whole second of the UTC calendar month of an instant
MonthEndSec(s) ==
  LET l == MonthLabel(s)
      m == l[2] * 10 + l[3]
  IN (IF m = 12 THEN daysFromCivil(l[1] + 1, 1, 1) ELSE daysFromCivil(l[1], m + 1, 1))
       * DaySeconds - 1

\* the end of the period of a counter key: of the week or month of an instant
\* whose key it is
PeriodEnds(k) ==
  {IF k.kind = "week" THEN WeekEndSec(Instants[i].sec) ELSE MonthEndSec(Instants[i].sec) :
     i \in {j \in 1..Len(Instants) :
              k \in {weekKey(Instants[j].sec, k.user, k.tier).key,
                     monthKey(Instants[j].sec, k.user, k.tier).key,
                     cogsKey(Instants[j].sec, k.user).key}}}

\* no call that wrote the key is still on its way to ensureExpireAt
Settled(k) == \A c \in Callers : Returned(c) \/ uc[c].key # k

\* C23: every usage key that has been written carries an expiry, the end of
\* its window or period, once the call that wrote it has returned, and no
\* later step changes an expiry that is set.
C23_ExpiryOnce ==
  /\ [](\A k \in DOMAIN expires :
          Settled(k) =>
            /\ expires[k] # NoExpiry
            /\ k.kind # "z" => expires[k] \in PeriodEnds(k))
  /\ [][\A k \in DOMAIN expires \cap DOMAIN expires' :
          expires[k] # NoExpiry => expires'[k] = expires[k]]_vars

\* C24: a trackTokenCost call with no prompt token and no completion token
\* returns 0 and writes nothing: the keys, their values and their expiries are
\* the same after every command of the call.
C24_ZeroTokens ==
  [][\A c \in Callers :
       /\ (\E exchangeRate \in RatesPct : trackTokenCost(c, 0, 0, exchangeRate)) =>
            /\ uc'[c].ret = 0
            /\ ctr' = ctr
            /\ expires' = expires
       /\ (/\ uc[c].op = "trackTokenCost" /\ uc[c].added = 0
           /\ ensureExpireAtTtl(c) \/ ensureExpireAtSet(c)) =>
            expires' = expires]_vars

\* the value of the cost accumulator of the current month in a store
cogsOf(values) ==
  IF cogsKey(now, "u1").key \in DOMAIN values THEN values[cogsKey(now, "u1").key] ELSE 0

\* C25: trackTokenCost returns the cost this call adds, the tokens at their
\* prices converted at the current rate, and adds exactly that amount to the
\* cost accumulator of the user.
C25_CostAdded ==
  [][\A c \in Callers, promptTokens \in TokenCounts, completionTokens \in TokenCounts,
        exchangeRate \in RatesPct :
       trackTokenCost(c, promptTokens, completionTokens, exchangeRate) =>
         LET d == (promptTokens * getMultiplier("gpt-4", "prompt")
                     + completionTokens * getMultiplier("gpt-4", "completion")) * exchangeRate
         IN /\ uc'[c].ret = d
            /\ cogsOf(ctr') = cogsOf(ctr) + d]_vars

----------------------------------------------------------------------------
(* More properties of the webhook reconciler: C26 and C30 are checked under *)
(* SpecDrain                                                                *)

\* the worker writes the Subscription of the event it holds in this step
Applies(w) == wk[w].pc \in {"upsert", "insert"} /\ wk'[w] # wk[w] /\ subs' # subs

\* C26: a Subscription an event has been applied to has a grace time exactly
\* when its status is past_due: an applied past_due event sets it to the grace
\* time of the payload, else to seven days after the event, and an applied
\* event of another status sets it to null.
C26_GraceWhilePastDue ==
  /\ [](\A u \in Users :
          subs[u] # NoSub => (subs[u].gracePeriodUntil # 0 <=> subs[u].status = "past_due"))
  /\ [][\A w \in Workers :
          Applies(w) =>
            LET evt == wk[w].doc
                doc == subs'[evt.userId]
            IN doc.gracePeriodUntil =
                 (IF doc.status # "past_due" THEN 0
                  ELSE IF evt.payload.graceAt # 0 THEN evt.payload.graceAt
                  ELSE evt.occurredAt + 7)]_vars

\* a past_due event that carried a grace time was applied, and a later event
\* of status active that carried one too has reset the grace time
C26_Witness ==
  \E a, b \in EventIds :
    /\ events[a].status = "processed" /\ events[a].payload.status = "past_due"
    /\ events[b].status = "processed" /\ events[b].payload.status = "active"
    /\ events[a].payload.graceAt = GraceAt /\ events[b].payload.graceAt = GraceAt
    /\ events[a].occurredAt < events[b].occurredAt
    /\ subs["u1"].lastEventAt = events[b].occurredAt
    /\ subs["u1"].status = "active"
    /\ subs["u1"].gracePeriodUntil = 0

\* the event types of the subscription lifecycle
SubscriptionEventTypes ==
  {"subscription.created", "subscription.updated", "subscription.activated",
   "subscription.canceled", "subscription.paused", "subscription.resumed",
   "subscription.past_due", "subscription.trialing"}

\* C30: the reconciler creates or modifies a Subscription only for an event
\* of a subscription lifecycle type; an event of another type leaves every
\* Subscription as it is.
C30_SubscriptionEventsOnly ==
  [][\A w \in Workers : Applies(w) => wk[w].doc.type \in SubscriptionEventTypes]_vars

----------------------------------------------------------------------------
(* More properties of the rolling set, checked under SpecUsage *)

\* C27: the marker trackUsage stores for an event at t milliseconds has the
\* score t, neither truncated nor wrapped, so that a read at the current time
\* keeps the marker while the event is less than the window old and removes
\* it from then on.
C27_ScoreIsTimestamp ==
  \A k \in 1..Len(zset) :
    /\ zset[k].score \div 1000 = zset[k].at
    /\ zset[k].score % 1000 = 0
    /\ zremrangebyscore(zset, now, WindowOf)[k].live <=> (now - zset[k].at < WindowOf)

----------------------------------------------------------------------------
(* One more property of the entitlement engine, checked under SpecBilling *)

\* C28: for a tier the user's plan has no window limit, weekly limit or soft
\* cap for, isAllowed reads no usage counter and answers what the cost guard
\* decides; for a user on the free plan, whose budget is 0, the answer is
\* allowed/ok whatever has been recorded, unless a store call fails.
C28_UnlimitedTier ==
  (ia.pc = "done" /\ NoLimits(planIdOf(subscription), ia.tier)) =>
    /\ \A j \in 1..Len(ia.res.checks) : ia.res.checks[j] = "cost"
    /\ ~ia.res.threw =>
         /\ ia.res.allowed = checkCostGuard(cogsCents, ResolvedPlan.monthlyCogsBudgetCents).allowed
         /\ ia.res.reason = (IF ia.res.allowed THEN "ok" ELSE "cost_guard")
         /\ planIdOf(subscription) = "free" => (ia.res.allowed /\ ia.res.reason = "ok")

\* a user without a Subscription, with many flagship events recorded and
\* cost accumulated, is allowed the flagship tier
C28_Witness ==
  /\ ia.pc = "done" /\ ia.tier = "flagship" /\ ~ia.res.threw
  /\ subscription = NoSub
  /\ rolling["flagship"] = StrayUsage
  /\ cogsCents = StrayCogsCents
  /\ ia.res.allowed /\ ia.res.reason = "ok"

----------------------------------------------------------------------------
(* Progress of the event queue, checked under SpecDrainFair *)

\* C29: every event that is stored as pending reaches a terminal status in
\* the end while the drain job keeps running, also when a save of an outcome
\* fails after the claim.
C29_EventuallyTerminal ==
  \A e \in EventIds : (events[e].status = "pending") ~> (events[e].status \in Terminal)

====
